---- MODULE Spec2Model ----
(***************************************************************************)
(* Batch transcoding and cue-sheet splitting engine of the audio file      *)
(* converter.  Two variants of the converter exist in the repository:      *)
(*   audioconv.py            ConverterThread without error handling        *)
(*   audioconv-withhorizon.py ConverterThread with per-file try/except,    *)
(*                           skip-if-exists, the Gamma Horizon profile and  *)
(*                           CueSplitterThread                             *)
(* The variable variant says which of the two programs is running.         *)
(*                                                                         *)
(* A path is a record [dir, name]: dir the sequence of directory           *)
(* components, name the file name cut at its dots ("a.flac" is             *)
(* <<"a", "flac">>, ".flac" is <<"", "flac">>, "sub" is <<"sub">>).        *)
(* An extension ".x" is written "x".                                        *)
(* bitrate and sample_rate are passed through to the encoder and decide    *)
(* nothing in the control flow; they are not modelled.                      *)
(*                                                                         *)
(* Specifications, over one list of variables:                             *)
(*   Spec          a batch conversion, run after run                       *)
(*   SpecProgress  the progress value of line 85, alone                    *)
(*   SpecCue       parse_cue, alone                                        *)
(*   SpecNames     the file name of a split track, alone                   *)
(*   SpecSplit     CueSplitterThread.run, parse_cue included               *)
(*   SpecRuns      a batch conversion or a cue split                       *)
(*   SpecWindow    the threads the window starts, request after request    *)
(***************************************************************************)
EXTENDS Integers, Sequences, FiniteSets, TLC

\* ------------------------------------------------------------------ bounds
MaxFiles == 2       \* audio files in the source tree
MaxRuns == 2        \* runs started from the window, one after the other
MaxTotal == 50      \* total_files of the progress computation checked alone
MaxClicks == 2      \* Convert and Split requests made in the window
MaxUnits == 2       \* files or tracks of one thread's run
MaxLines == 4       \* lines of a cue sheet

VARIABLES
  variant,             \* "audioconv" | "withhorizon": which program runs
  overwrite,           \* self.overwrite
  file_types,          \* self.file_types
  destination_folder,  \* self.destination_folder (NoDestination: never selected)
  gamma_horizon,       \* self.gamma_horizon
  walk_order,          \* the order in which os.walk lists the files of the tree
  fs,                  \* regular files on disk: path -> content
  dirs,                \* directories on disk
  fault,               \* environment: how export of an input fails, if it does
  pc,                  \* position of the worker thread in run()
  files,               \* files (the discovered list)
  i,                   \* loop index of enumerate(files)
  output_path,         \* output_path of the current iteration
  failed_files,        \* self.failed_files
  progress,            \* values emitted on the progress signal, this run
  finished,            \* payloads emitted on the finished signal, this run
  outcome,             \* per file index: the outcome marks recorded, this run
  trace,               \* events of this run, in order
  log,                 \* records of conversion_errors.log
  run,                 \* number of runs started
  prevOutcome,         \* outcome at the end of the previous run
  prevFs,              \* fs when this run started
  envChanged,          \* the environment changed between the runs
  resolved,            \* per file index: the output path resolved for it and
                       \* what that path held then, this run
  ptotal,              \* progress computation alone: total_files
  pdone,               \* progress computation alone: files completed
  pvalues,             \* progress computation alone: values emitted
  cue_lines,           \* parse_cue: lines, the lines read from the cue file
  cue_pos,             \* parse_cue: number of lines consumed
  tracks,              \* parse_cue: tracks
  current_track,       \* parse_cue: current_track
  cue_pc,              \* parse_cue: "idle" | "parsing" | "raised" | "returned"
  split_env,           \* cue split: what the thread finds on disk
  split_pc,            \* cue split: position of CueSplitterThread in run()
  audio,               \* cue split: len(audio), the decoded buffer's milliseconds
  track_i,             \* cue split: loop index of enumerate(tracks)
  cue_failed_files,    \* cue split: self.failed_files
  cue_log,             \* cue split: records of cue_split_errors.log
  cue_progress,        \* cue split: values emitted on the progress signal
  cue_finished,        \* cue split: payloads emitted on the finished signal
  exported,            \* cue split: files of the output folder, name -> content
  slices,              \* cue split: per track, the slice taken at line 164
  track_result,        \* cue split: per track "pending" | "exported" | "failed"
  name_track,          \* file name alone: the track record
  filename,            \* file name alone: filename of line 170
  workers,             \* window: the threads started so far, each with its position
  clicks               \* window: Convert and Split requests accepted so far

\* what no step of a run changes
cfgvars == <<variant, overwrite, file_types, destination_folder, gamma_horizon,
             walk_order>>

bvars == <<cfgvars, fs, dirs, fault, pc, files, i, output_path, failed_files,
           progress, finished, outcome, trace, log, run, prevOutcome, prevFs,
           envChanged, resolved>>

pvars == <<ptotal, pdone, pvalues>>

cvars == <<cue_lines, cue_pos, tracks, current_track, cue_pc>>

svars == <<split_env, split_pc, audio, track_i, cue_failed_files, cue_log,
           cue_progress, cue_finished, exported, slices, track_result>>

nvars == <<name_track, filename>>

wvars == <<workers, clicks>>

\* the variables of the cue split, of the file name and of the window
xvars == <<svars, nvars, wvars>>

vars == <<bvars, pvars, cvars, svars, nvars, wvars>>

\* ------------------------------------------------------- IEEE-754 doubles
\* int((i + 1) / total_files * 100) is computed in binary64: a true division
\* rounded to 53 bits (to nearest, ties to even), a multiplication by 100
\* rounded likewise, then a truncation.  A double is [m, e]: m the significand
\* as limbs in base 2^13, most significant first, the first limb holding what
\* stands at and above bit 52; the value is m * 2^(-52 - e).
LimbBase == 8192
MantissaLimbs == 4

RECURSIVE Pow2(_)
Pow2(s) == IF s = 0 THEN 1 ELSE 2 * Pow2(s - 1)

\* limbs that may exceed the base, carried into range (the first limb keeps
\* what is carried into it)
RECURSIVE Carry(_)
Carry(p) ==
  IF Len(p) <= 1 THEN p
  ELSE LET last == p[Len(p)]
           init == SubSeq(p, 1, Len(p) - 1)
       IN  Append(Carry([init EXCEPT ![Len(init)] = @ + last \div LimbBase]),
                  last % LimbBase)

AddLow(p, x) == Carry([p EXCEPT ![Len(p)] = @ + x])

RECURSIVE NormShift(_, _, _)
NormShift(k, n, s) ==
  IF k >= n THEN [num |-> k, s |-> s] ELSE NormShift(2 * k, n, s + 1)

RECURSIVE DivLimbs(_, _, _)
DivLimbs(r, n, left) ==
  IF left = 0 THEN [limbs |-> <<>>, rem |-> r]
  ELSE LET rest == DivLimbs((r * LimbBase) % n, n, left - 1)
       IN  [limbs |-> <<(r * LimbBase) \div n>> \o rest.limbs, rem |-> rest.rem]

\* k / n for 1 <= k <= n, correctly rounded
FloatDiv(k, n) ==
  LET ns == NormShift(k, n, 0)
      d  == DivLimbs(ns.num - n, n, MantissaLimbs)
      m  == <<1>> \o d.limbs
      up == \/ 2 * d.rem > n
            \/ (2 * d.rem = n /\ m[Len(m)] % 2 = 1)
  IN  [m |-> IF up THEN AddLow(m, 1) ELSE m, e |-> ns.s]

\* number of bits of x
RECURSIVE BitLen(_)
BitLen(x) == IF x = 0 THEN 0 ELSE 1 + BitLen(x \div 2)

\* x * 100, correctly rounded: the product has BitLen(p[1]) - 1 bits too many
FloatMul100(x) ==
  LET p    == Carry([j \in 1..Len(x.m) |-> x.m[j] * 100])
      t    == BitLen(p[1]) - 1
      unit == Pow2(t)
      low  == p[Len(p)] % unit
      kept == p[Len(p)] \div unit
      up   == \/ 2 * low > unit
              \/ (2 * low = unit /\ kept % 2 = 1)
      cut  == [p EXCEPT ![Len(p)] = @ - low]
  IN  [m |-> IF up THEN AddLow(cut, unit) ELSE cut, e |-> x.e]

\* int(x) for x >= 0
FloatToInt(x) == x.m[1] \div Pow2(x.e)

\* int(done / total_files * 100)
ProgressValue(done, total_files) ==
  FloatToInt(FloatMul100(FloatDiv(done, total_files)))

\* ------------------------------------------------------------------ paths
Src == <<"src">>                     \* self.folder
Dst == <<"dst">>                     \* the destination folder, when selected
NoDestination == <<"<None>">>        \* getattr(self, 'destination_folder', None)

Path(d, n) == [dir |-> d, name |-> n]

\* filename.endswith('.' + ext)
EndsWith(name, ext) == Len(name) >= 2 /\ name[Len(name)] = ext

\* a plausible slip: the file name alone, the directories under folder lost
relpathBasename(p, folder) == Path(<<>>, p.name)

\* os.path.relpath(file_path, folder), for a file under folder
relpath(p, folder) == Path(SubSeq(p.dir, Len(folder) + 1, Len(p.dir)), p.name)

\* os.path.join(destination_folder, relative_path)
join(d, rel) == Path(d \o rel.dir, rel.name)

\* os.path.dirname(output_path)
dirname(p) == p.dir

\* os.path.splitext(name): the extension starts at the last dot, unless only
\* dots precede it
splitext(name) ==
  IF Len(name) >= 2 /\ \E j \in 1..(Len(name) - 1) : name[j] # ""
  THEN [root |-> SubSeq(name, 1, Len(name) - 1), ext |-> <<name[Len(name)]>>]
  ELSE [root |-> name, ext |-> <<>>]

\* a plausible slip: the new extension appended to the whole name
WithNewExtAppended(p, gamma) ==
  Path(p.dir, Append(p.name, IF gamma THEN "wav" ELSE "mp3"))

\* os.path.splitext(output_path)[0] + ('.wav' if gamma_horizon else '.mp3')
WithNewExt(p, gamma) ==
  Path(p.dir, Append(splitext(p.name).root, IF gamma THEN "wav" ELSE "mp3"))

\* the regular file that would stand where directory d is wanted
AsFile(d) == Path(SubSeq(d, 1, Len(d) - 1), <<d[Len(d)]>>)

DirPrefixes(d) == {SubSeq(d, 1, n) : n \in 1..Len(d)}

\* os.makedirs(d, exist_ok=True) raises when a component is a regular file
MakedirsRaises(d, disk) == \E q \in DirPrefixes(d) : AsFile(q) \in DOMAIN disk

\* a plausible slip: the test looks at a path that never exists
existsNever(p, disk) == FALSE

\* os.path.exists(output_path)
exists(p, disk) == p \in DOMAIN disk

\* ------------------------------------------------------------ source tree
AudioCandidates ==
  { Path(Src, <<"a", "m4a">>), Path(Src, <<"a", "flac">>),
    Path(Src, <<"", "flac">>), Path(Src \o <<"sub">>, <<"a", "flac">>) }

NotesTxt == Path(Src, <<"n", "txt">>)

\* os.walk(folder): the root's file names, in the order the directory lists
\* them, then those of its subdirectory
WalkOrders ==
  { << Path(Src, <<"a", "m4a">>), Path(Src, <<"a", "flac">>),
       Path(Src, <<"", "flac">>), NotesTxt,
       Path(Src \o <<"sub">>, <<"a", "flac">>) >>,
    << NotesTxt, Path(Src, <<"", "flac">>),
       Path(Src, <<"a", "flac">>), Path(Src, <<"a", "m4a">>),
       Path(Src \o <<"sub">>, <<"a", "flac">>) >> }

Kinds == {"absent", "audio", "garbage", "openFault", "encodeFault"}

TreeKinds ==
  { k \in [AudioCandidates -> Kinds] :
      Cardinality({p \in AudioCandidates : k[p] # "absent"}) <= MaxFiles }

SourceFs(k) ==
  [p \in {q \in AudioCandidates : k[q] # "absent"} \cup {NotesTxt} |->
     IF p = NotesTxt THEN "text"
     ELSE IF k[p] = "garbage" THEN "garbage" ELSE "audio"]

FaultOf(k) ==
  [p \in AudioCandidates |->
     IF k[p] = "openFault" THEN "open"
     ELSE IF k[p] = "encodeFault" THEN "encode" ELSE "none"]

\* what the destination folder holds before the first run
DestinationStates == {"empty", "outputs", "blocked"}

DestinationFs(d) ==
  IF d = "outputs"
  THEN [p \in {Path(Dst, <<"a", "mp3">>), Path(Dst, <<"a", "wav">>)} |-> "old"]
  ELSE IF d = "blocked"
  THEN [p \in {Path(Dst, <<"sub">>)} |-> "text"]
  ELSE <<>>

Merge(f, g) ==
  [p \in DOMAIN f \cup DOMAIN g |-> IF p \in DOMAIN f THEN f[p] ELSE g[p]]

\* AudioSegment.from_file raises on these contents
Undecodable == {"garbage", "", "text"}

\* the encoded result
Encoded(gamma) == IF gamma THEN "ulaw_wav" ELSE "mp3"

\* ----------------------------------------------------------------- run()
total_files == Len(files)

file_path == files[i + 1]

\* lines 54-58: the files of the tree whose name ends with a selected type
Discovered(disk, types) ==
  SelectSeq(walk_order,
            LAMBDA p : p \in DOMAIN disk /\ \E ext \in types : EndsWith(p.name, ext))

Event(e, idx, v) == [ev |-> e, idx |-> idx, val |-> v]

Mark(o, idx, m) == [o EXCEPT ![idx] = Append(@, m)]

\* first statement of the loop body
LoopHead == IF variant = "withhorizon" THEN "resolve" ELSE "decode"

\* a plausible slip: no handler around the loop body
RaiseUnhandled(what) ==
  /\ pc' = "aborted"
  /\ trace' = Append(trace, Event(what, i + 1, 0))
  /\ UNCHANGED <<failed_files, log, outcome>>

\* a plausible slip: the failure recorded in memory, the log not written
RaiseNoLog(what) ==
  /\ failed_files' = Append(failed_files, file_path)
  /\ outcome' = Mark(outcome, i + 1, "Failed")
  /\ trace' = Append(trace, Event(what, i + 1, 0))
  /\ pc' = "progress"
  /\ UNCHANGED log

\* an exception raised in the loop body: withhorizon lines 80-84 catch it,
\* record the file and go on to the progress emit; audioconv.py has no
\* handler, the exception leaves run() and the thread is dead
Raise(what) ==
  IF variant = "withhorizon"
  THEN /\ failed_files' = Append(failed_files, file_path)
       /\ log' = Append(log, file_path)
       /\ outcome' = Mark(outcome, i + 1, "Failed")
       /\ trace' = Append(trace, Event(what, i + 1, 0))
       /\ pc' = "progress"
  ELSE /\ pc' = "aborted"
       /\ trace' = Append(trace, Event(what, i + 1, 0))
       /\ UNCHANGED <<failed_files, log, outcome>>

\* resolved[j] before the output path of file j is known
Unresolved == [out |-> Path(<<>>, <<>>), before |-> "<unresolved>"]

\* what os.path.exists found at the output path when it was resolved
Before(out, disk) == IF exists(out, disk) THEN disk[out] ELSE "<absent>"

\* the window is open, no thread has been started
BatchIdle ==
  /\ pc = "idle"
  /\ files = <<>>
  /\ i = 0
  /\ output_path = Path(<<>>, <<>>)
  /\ failed_files = <<>>
  /\ progress = <<>>
  /\ finished = <<>>
  /\ outcome = <<>>
  /\ resolved = <<>>
  /\ trace = <<>>
  /\ log = <<>>
  /\ run = 0
  /\ prevOutcome = <<>>
  /\ prevFs = fs
  /\ envChanged = FALSE

BatchInit ==
  /\ variant \in {"audioconv", "withhorizon"}
  /\ gamma_horizon \in IF variant = "withhorizon" THEN BOOLEAN ELSE {FALSE}
  /\ overwrite \in BOOLEAN
  /\ destination_folder \in IF overwrite THEN {NoDestination} ELSE {NoDestination, Dst}
  /\ file_types \in {{"m4a", "flac"}, {"flac"}, {}}
  /\ walk_order \in WalkOrders
  /\ \E k \in TreeKinds :
       \E d \in IF destination_folder = Dst THEN DestinationStates ELSE {"empty"} :
          /\ fs = Merge(SourceFs(k), DestinationFs(d))
          /\ fault = FaultOf(k)
  /\ dirs = {Src, Src \o <<"sub">>} \cup (IF destination_folder = Dst THEN {Dst} ELSE {})
  /\ BatchIdle

\* a fixed window state, for the specifications that run no batch
BatchUnused ==
  /\ variant = "withhorizon"
  /\ gamma_horizon = FALSE
  /\ overwrite = FALSE
  /\ destination_folder = NoDestination
  /\ file_types = {}
  /\ walk_order = <<>>
  /\ fs = <<>>
  /\ fault = [p \in AudioCandidates |-> "none"]
  /\ dirs = {}
  /\ BatchIdle

ProgressUnused == ptotal = 1 /\ pdone = 0 /\ pvalues = <<>>

CueUnused ==
  /\ cue_lines = <<>>
  /\ cue_pos = 0
  /\ tracks = <<>>
  /\ current_track = <<>>
  /\ cue_pc = "idle"

SplitUnused ==
  /\ split_env = "ok"
  /\ split_pc = "idle"
  /\ audio = 0
  /\ track_i = 0
  /\ cue_failed_files = <<>>
  /\ cue_log = <<>>
  /\ cue_progress = <<>>
  /\ cue_finished = <<>>
  /\ exported = <<>>
  /\ slices = <<>>
  /\ track_result = <<>>

NamesUnused == name_track = <<>> /\ filename = <<>>

WindowUnused == workers = <<>> /\ clicks = 0

Init == BatchInit /\ ProgressUnused /\ CueUnused /\ SplitUnused /\ NamesUnused
        /\ WindowUnused

\* convert_files: a new ConverterThread is built and started
ConvertFiles ==
  /\ pc \in {"idle", "done"}
  /\ run < MaxRuns
  /\ run' = run + 1
  /\ pc' = "walk"
  /\ failed_files' = <<>>
  /\ progress' = <<>>
  /\ finished' = <<>>
  /\ trace' = <<>>
  /\ prevOutcome' = outcome
  /\ prevFs' = fs
  /\ outcome' = <<>>
  /\ resolved' = <<>>
  /\ files' = <<>>
  /\ i' = 0
  /\ UNCHANGED <<cfgvars, pvars, cvars, xvars, fs, dirs, fault, output_path, log, envChanged>>

\* run(): discovery and total_files
Walk ==
  /\ pc = "walk"
  /\ files' = Discovered(fs, file_types)
  /\ i' = 0
  /\ outcome' = [j \in 1..Len(files') |-> <<>>]
  /\ resolved' = [j \in 1..Len(files') |-> Unresolved]
  /\ pc' = IF files' = <<>> THEN "finish" ELSE LoopHead
  /\ UNCHANGED <<cfgvars, pvars, cvars, xvars, fs, dirs, fault, output_path, failed_files,
                 progress, finished, trace, log, run, prevOutcome, prevFs, envChanged>>

\* after the output path is known: withhorizon converts unless the output
\* exists and overwrite is off (line 72); audioconv.py always exports
Resolved(out) ==
  /\ output_path' = out
  /\ resolved' = [resolved EXCEPT ![i + 1] = [out |-> out, before |-> Before(out, fs)]]
  /\ IF variant = "withhorizon" /\ ~(overwrite \/ ~exists(out, fs))
     THEN /\ outcome' = Mark(outcome, i + 1, "Skipped")
          /\ trace' = Append(trace, Event("skipped", i + 1, 0))
          /\ pc' = "progress"
     ELSE /\ outcome' = outcome
          /\ trace' = Append(trace, Event("resolved", i + 1, 0))
          /\ pc' = IF variant = "withhorizon" THEN "decode" ELSE "open"
  /\ UNCHANGED <<failed_files, log>>

\* the output path (withhorizon lines 64-72, audioconv.py lines 35-41)
Resolve ==
  /\ pc = "resolve"
  /\ IF overwrite
     THEN /\ Resolved(file_path)
          /\ UNCHANGED dirs
     ELSE IF destination_folder = NoDestination
     THEN /\ Raise("join_raised")
          /\ UNCHANGED <<output_path, resolved, dirs>>
     ELSE LET joined == join(destination_folder, relpath(file_path, Src))
          IN  IF MakedirsRaises(dirname(joined), fs)
              THEN /\ Raise("makedirs_raised")
                   /\ output_path' = joined
                   /\ UNCHANGED <<resolved, dirs>>
              ELSE /\ dirs' = dirs \cup DirPrefixes(dirname(joined))
                   /\ Resolved(WithNewExt(joined, gamma_horizon))
  /\ UNCHANGED <<cfgvars, pvars, cvars, xvars, fs, fault, files, i, progress, finished, run,
                 prevOutcome, prevFs, envChanged>>

\* AudioSegment.from_file(file_path) and the set_* conversions
Decode ==
  /\ pc = "decode"
  /\ IF fs[file_path] \in Undecodable
     THEN Raise("decode_raised")
     ELSE /\ trace' = Append(trace, Event("decoded", i + 1, 0))
          /\ pc' = IF variant = "withhorizon" THEN "open" ELSE "resolve"
          /\ UNCHANGED <<failed_files, log, outcome>>
  /\ UNCHANGED <<cfgvars, pvars, cvars, xvars, fs, dirs, fault, files, i, output_path,
                 progress, finished, run, prevOutcome, prevFs, envChanged, resolved>>

\* audio.export, first half: the output file is opened for writing ('wb+'),
\* which creates or truncates it
ExportOpen ==
  /\ pc = "open"
  /\ IF fault[file_path] = "open"
     THEN /\ Raise("open_raised")
          /\ UNCHANGED fs
     ELSE /\ fs' = Merge([p \in {output_path} |-> ""], fs)
          /\ trace' = Append(trace, Event("truncated", i + 1, 0))
          /\ pc' = "encode"
          /\ UNCHANGED <<failed_files, log, outcome>>
  /\ UNCHANGED <<cfgvars, pvars, cvars, xvars, dirs, fault, files, i, output_path, progress,
                 finished, run, prevOutcome, prevFs, envChanged, resolved>>

\* audio.export, second half: the encoder runs and its result is written
ExportEncode ==
  /\ pc = "encode"
  /\ IF fault[file_path] = "encode"
     THEN /\ Raise("encode_raised")
          /\ UNCHANGED fs
     ELSE /\ fs' = [fs EXCEPT ![output_path] = Encoded(gamma_horizon)]
          /\ outcome' = Mark(outcome, i + 1, "Succeeded")
          /\ trace' = Append(trace, Event("encoded", i + 1, 0))
          /\ pc' = "progress"
          /\ UNCHANGED <<failed_files, log>>
  /\ UNCHANGED <<cfgvars, pvars, cvars, xvars, dirs, fault, files, i, output_path, progress,
                 finished, run, prevOutcome, prevFs, envChanged, resolved>>

\* self.progress.emit(int((i + 1) / total_files * 100)), then the next file
EmitProgress ==
  /\ pc = "progress"
  /\ LET v == ProgressValue(i + 1, total_files)
     IN  /\ progress' = Append(progress, v)
         /\ trace' = Append(trace, Event("progress", i + 1, v))
  /\ i' = i + 1
  /\ pc' = IF i + 1 < total_files THEN LoopHead ELSE "finish"
  /\ UNCHANGED <<cfgvars, pvars, cvars, xvars, fs, dirs, fault, files, output_path,
                 failed_files, finished, outcome, log, run, prevOutcome, prevFs,
                 envChanged, resolved>>

\* a plausible slip: finished emitted at the end of the last pass of the
\* loop, so never when there is no pass
EmitFinishedInLoop ==
  /\ pc = "finish"
  /\ files # <<>>
  /\ finished' = Append(finished, IF variant = "withhorizon" THEN failed_files ELSE <<>>)
  /\ trace' = Append(trace, Event("finished", 0, 0))
  /\ pc' = "done"
  /\ UNCHANGED <<cfgvars, pvars, cvars, xvars, fs, dirs, fault, files, i, output_path,
                 failed_files, progress, outcome, log, run, prevOutcome, prevFs,
                 envChanged, resolved>>

\* self.finished.emit(self.failed_files); audioconv.py emits no payload
EmitFinished ==
  /\ pc = "finish"
  /\ finished' = Append(finished, IF variant = "withhorizon" THEN failed_files ELSE <<>>)
  /\ trace' = Append(trace, Event("finished", 0, 0))
  /\ pc' = "done"
  /\ UNCHANGED <<cfgvars, pvars, cvars, xvars, fs, dirs, fault, files, i, output_path,
                 failed_files, progress, outcome, log, run, prevOutcome, prevFs,
                 envChanged, resolved>>

\* between two runs the cause of the export failures goes away (disk space
\* freed, permissions fixed); the source files stay as they are
EnvChange ==
  /\ pc = "done"
  /\ run < MaxRuns
  /\ \E p \in AudioCandidates : fault[p] # "none"
  /\ fault' = [p \in AudioCandidates |-> "none"]
  /\ envChanged' = TRUE
  /\ UNCHANGED <<cfgvars, pvars, cvars, xvars, fs, dirs, pc, files, i, output_path,
                 failed_files, progress, finished, outcome, trace, log, run,
                 prevOutcome, prevFs, resolved>>

Next ==
  \/ ConvertFiles
  \/ Walk
  \/ Resolve
  \/ Decode
  \/ ExportOpen
  \/ ExportEncode
  \/ EmitProgress
  \/ EmitFinished
  \/ EnvChange

Spec == Init /\ [][Next]_vars

\* --------------------------------------- the progress computation, alone
\* line 85 over a run of ptotal files, whatever their outcomes
ProgressInit == ptotal \in 1..MaxTotal /\ pdone = 0 /\ pvalues = <<>>

ProgressStep ==
  /\ pdone < ptotal
  /\ pdone' = pdone + 1
  /\ pvalues' = Append(pvalues, ProgressValue(pdone + 1, ptotal))
  /\ UNCHANGED <<bvars, cvars, xvars, ptotal>>

InitProgress ==
  BatchUnused /\ ProgressInit /\ CueUnused /\ SplitUnused /\ NamesUnused /\ WindowUnused

NextProgress == ProgressStep

SpecProgress == InitProgress /\ [][NextProgress]_vars

\* ------------------------------------------------------------ parse_cue
\* A stripped line of the cue file is [kw, arg, time]: kw the prefix that
\* line.startswith tests for ("REM" for any line that matches none), arg
\* the token after the keyword (NoToken when the line ends there), time the
\* three fields of an INDEX line's MM:SS:FF.
NoToken == "<none>"

\* int(token): the decimal tokens of the model; any other token raises
IntOf == [t \in {"00", "01", "02", "03", "37"} |->
            IF t = "00" THEN 0 ELSE IF t = "01" THEN 1 ELSE IF t = "02" THEN 2
            ELSE IF t = "03" THEN 3 ELSE 37]

IsInt(t) == t \in DOMAIN IntOf

CueLine(kw, arg, time) == [kw |-> kw, arg |-> arg, time |-> time]

NoTime == <<NoToken, NoToken, NoToken>>

CueLineUniverse ==
  { CueLine("TRACK", "01", NoTime), CueLine("TRACK", "02", NoTime),
    CueLine("TRACK", "xx", NoTime), CueLine("TRACK", NoToken, NoTime),
    CueLine("TITLE", "Song", NoTime), CueLine("PERFORMER", "Band", NoTime),
    CueLine("INDEX 01", NoToken, <<"00", "02", "00">>),
    CueLine("INDEX 01", NoToken, <<"03", "02", "37">>),
    CueLine("INDEX 00", NoToken, <<"00", "00", "00">>),
    CueLine("REM", "x", NoTime) }

RECURSIVE SeqsUpTo(_, _)
SeqsUpTo(S, n) ==
  IF n = 0 THEN {<<>>}
  ELSE LET shorter == SeqsUpTo(S, n - 1)
       IN  shorter \cup {Append(s, x) : s \in {t \in shorter : Len(t) = n - 1}, x \in S}

\* d[key] = value on a dict
Put(d, key, value) ==
  [x \in DOMAIN d \cup {key} |-> IF x = key THEN value ELSE d[x]]

\* if current_track: tracks.append(current_track)
Flushed(ts, ct) == IF DOMAIN ct # {} THEN Append(ts, ct) ELSE ts

\* the frame field read as hundredths of a second instead of 1/75 s
total_msHundredths(minutes, seconds, frames) ==
  (minutes * 60 + seconds) * 1000 + frames * 10

\* (minutes * 60 + seconds) * 1000 + (frames * 1000 // 75)
total_ms(minutes, seconds, frames) ==
  (minutes * 60 + seconds) * 1000 + ((frames * 1000) \div 75)

CueInit ==
  /\ cue_lines \in SeqsUpTo(CueLineUniverse, MaxLines)
  /\ cue_pos = 0
  /\ tracks = <<>>
  /\ current_track = <<>>
  /\ cue_pc = "parsing"

\* one pass of the loop over lines (lines 111-133)
ParseLine ==
  /\ cue_pc = "parsing"
  /\ cue_pos < Len(cue_lines)
  /\ cue_pos' = cue_pos + 1
  /\ LET line == cue_lines[cue_pos + 1]
     IN  IF line.kw = "TRACK"
         THEN /\ tracks' = Flushed(tracks, current_track)
              /\ IF IsInt(line.arg)
                 THEN /\ current_track' = [number |-> IntOf[line.arg]]
                      /\ cue_pc' = cue_pc
                 ELSE /\ cue_pc' = "raised"
                      /\ UNCHANGED current_track
         ELSE IF line.kw \in {"TITLE", "PERFORMER"}
         THEN /\ current_track' =
                   IF "number" \in DOMAIN current_track
                   THEN Put(current_track,
                            IF line.kw = "TITLE" THEN "title" ELSE "performer", line.arg)
                   ELSE current_track
              /\ UNCHANGED <<tracks, cue_pc>>
         ELSE IF line.kw = "INDEX 01"
         THEN IF \A n \in 1..3 : IsInt(line.time[n])
              THEN /\ current_track' =
                        Put(current_track, "start",
                            total_ms(IntOf[line.time[1]], IntOf[line.time[2]],
                                     IntOf[line.time[3]]))
                   /\ UNCHANGED <<tracks, cue_pc>>
              ELSE /\ cue_pc' = "raised"
                   /\ UNCHANGED <<tracks, current_track>>
         ELSE UNCHANGED <<tracks, current_track, cue_pc>>
  /\ UNCHANGED <<bvars, pvars, xvars, cue_lines>>

\* after the loop (lines 135-138): the last track is flushed and tracks returned
ParseReturn ==
  /\ cue_pc = "parsing"
  /\ cue_pos = Len(cue_lines)
  /\ tracks' = Flushed(tracks, current_track)
  /\ cue_pc' = "returned"
  /\ UNCHANGED <<bvars, pvars, xvars, cue_lines, cue_pos, current_track>>

InitCue ==
  BatchUnused /\ ProgressUnused /\ CueInit /\ SplitUnused /\ NamesUnused /\ WindowUnused

NextCue == ParseLine \/ ParseReturn

SpecCue == InitCue /\ [][NextCue]_vars

\* ------------------------------------------- the file name of a track
\* A string is the sequence of its characters.
DigitChar == <<"0", "1", "2", "3", "4", "5", "6", "7", "8", "9">>

Letters == {"a", "<e-acute>", "M", "y", "S", "o", "n", "g", "T", "r", "c", "k", "B", "d"}

\* c.isalnum(), for the characters of the model ("<e-acute>" stands for the
\* one character U+00E9, a letter outside ASCII)
isalnum(c) == c \in Letters \/ \E d \in 1..10 : DigitChar[d] = c

\* str(n)
RECURSIVE str(_)
str(n) ==
  IF n < 0 THEN <<"-">> \o str(0 - n)
  ELSE IF n < 10 THEN <<DigitChar[n + 1]>>
  ELSE str(n \div 10) \o <<DigitChar[(n % 10) + 1]>>

Zeros(n) == [k \in 1..n |-> "0"]

\* a plausible slip: the number not padded
zfillNone(t, width) == t

\* t.zfill(width): zeros on the left, after the sign when there is one
zfill(t, width) ==
  IF Len(t) >= width THEN t
  ELSE IF t # <<>> /\ t[1] \in {"+", "-"}
       THEN <<t[1]>> \o Zeros(width - Len(t)) \o Tail(t)
       ELSE Zeros(width - Len(t)) \o t

Whitespace == {" ", "\t", "\n"}

RECURSIVE lstrip(_)
lstrip(t) == IF t # <<>> /\ t[1] \in Whitespace THEN lstrip(Tail(t)) ELSE t

RECURSIVE rstrip(_)
rstrip(t) ==
  IF t # <<>> /\ t[Len(t)] \in Whitespace THEN rstrip(SubSeq(t, 1, Len(t) - 1)) ELSE t

\* t.strip()
strip(t) == rstrip(lstrip(t))

\* ''.join(c for c in title if c.isalnum() or c in (' ', '-', '_'))
RECURSIVE joinKept(_)
joinKept(t) ==
  IF t = <<>> THEN <<>>
  ELSE IF isalnum(t[1]) \/ t[1] \in {" ", "-", "_"}
       THEN <<t[1]>> \o joinKept(Tail(t))
       ELSE joinKept(Tail(t))

\* lines 166-170, for a record with a number: titled says whether the record
\* has a title, title is that title
FileName(number, titled, title) ==
  LET track_num == zfill(str(number), 2)
      t         == IF titled THEN title ELSE <<"T", "r", "a", "c", "k", " ">> \o track_num
      clean     == strip(joinKept(t))
  IN  track_num \o <<" ", "-", " ">> \o clean \o <<".", "f", "l", "a", "c">>

MaxTitleLen == 3

NameAlphabet == {"a", "<e-acute>", "1", " ", "-", "_", ":"}

MySong == <<"M", "y", ":", " ", "S", "o", "n", "g", "?", " ", "#", "1">>

TrackNumbers == {1, 3, 12, 100}

Titles == SeqsUpTo(NameAlphabet, MaxTitleLen) \cup {MySong}

NamesInit ==
  /\ name_track \in {[number |-> n] : n \in TrackNumbers}
                    \cup {[number |-> n, title |-> t] : n \in TrackNumbers, t \in Titles}
  /\ filename = <<>>

\* lines 166-170 applied to the record
MakeFileName ==
  /\ name_track # <<>>
  /\ filename = <<>>
  /\ filename' = FileName(name_track.number, "title" \in DOMAIN name_track,
                          IF "title" \in DOMAIN name_track THEN name_track.title
                          ELSE <<>>)
  /\ UNCHANGED <<bvars, pvars, cvars, svars, wvars, name_track>>

InitNames ==
  BatchUnused /\ ProgressUnused /\ CueUnused /\ SplitUnused /\ NamesInit /\ WindowUnused

NextNames == MakeFileName

SpecNames == InitNames /\ [][NextNames]_vars

\* ------------------------------------------------ CueSplitterThread.run
\* the cue sheets of the split: TRACK lines with a number, with a token that
\* is no number and with none, a TITLE line and two INDEX 01 lines
SplitLineUniverse ==
  { CueLine("TRACK", "01", NoTime), CueLine("TRACK", "02", NoTime),
    CueLine("TRACK", "xx", NoTime), CueLine("TRACK", NoToken, NoTime),
    CueLine("TITLE", "Song", NoTime),
    CueLine("INDEX 01", NoToken, <<"00", "02", "00">>),
    CueLine("INDEX 01", NoToken, <<"03", "02", "37">>) }

\* the characters of a title token
TitleChars(t) == IF t = "Song" THEN <<"S", "o", "n", "g">> ELSE <<"B", "a", "n", "d">>

\* what the thread finds: everything in place, the cue file or the audio
\* file missing, an output folder that cannot be created, an audio file
\* that cannot be decoded
SplitEnvs == {"ok", "cue_missing", "audio_missing", "folder_blocked", "audio_garbage"}

\* len(audio) of a decodable audio file, in milliseconds
AudioLens == {1000, 200000}

NoSlice == [from |-> 0 - 1, to |-> 0 - 1]

Min2(a, b) == IF a <= b THEN a ELSE b

\* audio[start_time:end_time]: pydub clamps both ends to len(audio)
Slice(len, start_time, end_time) ==
  [from |-> Min2(start_time, len), to |-> Min2(end_time, len)]

\* a plausible slip: every track cut up to the end of the buffer
end_timeBufferEnd(ts, j, len) == [raised |-> FALSE, ms |-> len]

\* a plausible slip: a missing start of the next track replaced by the end
\* of the buffer instead of raising
end_timeLenient(ts, j, len) ==
  IF j < Len(ts) /\ "start" \in DOMAIN ts[j + 1]
  THEN [raised |-> FALSE, ms |-> ts[j + 1].start]
  ELSE [raised |-> FALSE, ms |-> len]

\* tracks[i + 1]['start'] if i + 1 < len(tracks) else len(audio), for the
\* j-th track (j = i + 1); the subscript raises KeyError without a start
end_time(ts, j, len) ==
  IF j < Len(ts)
  THEN IF "start" \in DOMAIN ts[j + 1]
       THEN [raised |-> FALSE, ms |-> ts[j + 1].start]
       ELSE [raised |-> TRUE, ms |-> 0]
  ELSE [raised |-> FALSE, ms |-> len]

\* f"General error: {str(e)}"
GeneralEntry(msg) == [kind |-> "General error", number |-> 0, msg |-> msg]

\* f"Track {track.get('number', 'unknown')}: {str(e)}"
TrackEntry(track, msg) ==
  IF "number" \in DOMAIN track
  THEN [kind |-> "Track", number |-> track.number, msg |-> msg]
  ELSE [kind |-> "Track unknown", number |-> 0, msg |-> msg]

\* a plausible slip: the exception swallowed
TopLevelRaiseSwallowed(msg) ==
  /\ split_pc' = "finish"
  /\ UNCHANGED <<cue_failed_files, cue_log>>

\* a plausible slip: the outer failure recorded as a track's
TopLevelRaiseAsTrack(msg) ==
  /\ cue_failed_files' = Append(cue_failed_files, TrackEntry(<<>>, msg))
  /\ cue_log' = Append(cue_log, TrackEntry(<<>>, msg))
  /\ split_pc' = "finish"

\* the outer handler (lines 183-187); the file is opened in 'a' mode
TopLevelRaise(msg) ==
  /\ cue_failed_files' = Append(cue_failed_files, GeneralEntry(msg))
  /\ cue_log' = Append(cue_log, GeneralEntry(msg))
  /\ split_pc' = "finish"

\* a plausible slip: no handler inside the loop, the outer one ends the run
TrackRaiseAborts(msg) ==
  /\ cue_failed_files' = Append(cue_failed_files, GeneralEntry(msg))
  /\ cue_log' = Append(cue_log, GeneralEntry(msg))
  /\ track_result' = [track_result EXCEPT ![track_i + 1] = "failed"]
  /\ split_pc' = "finish"

\* the handler inside the loop (lines 175-179); the file is opened in 'a' mode
TrackRaise(msg) ==
  /\ cue_failed_files' = Append(cue_failed_files, TrackEntry(tracks[track_i + 1], msg))
  /\ cue_log' = Append(cue_log, TrackEntry(tracks[track_i + 1], msg))
  /\ track_result' = [track_result EXCEPT ![track_i + 1] = "failed"]
  /\ split_pc' = "emit"

\* the thread has been built and started on a cue sheet
SplitInit ==
  /\ split_env \in SplitEnvs
  /\ cue_lines \in SeqsUpTo(SplitLineUniverse, MaxLines)
  /\ cue_pos = 0 /\ tracks = <<>> /\ current_track = <<>> /\ cue_pc = "idle"
  /\ split_pc = "start"
  /\ audio = 0 /\ track_i = 0
  /\ cue_failed_files = <<>> /\ cue_log = <<>>
  /\ cue_progress = <<>> /\ cue_finished = <<>>
  /\ exported = <<>> /\ slices = <<>> /\ track_result = <<>>

\* lines 141-155: the paths are checked, the output folder is made when it
\* is missing, parse_cue is called
SplitStart ==
  /\ split_pc = "start"
  /\ IF split_env \in {"cue_missing", "audio_missing", "folder_blocked"}
     THEN /\ TopLevelRaise(split_env)
          /\ UNCHANGED cue_pc
     ELSE /\ split_pc' = "parse"
          /\ cue_pc' = "parsing"
          /\ UNCHANGED <<cue_failed_files, cue_log>>
  /\ UNCHANGED <<bvars, pvars, nvars, wvars, cue_lines, cue_pos, tracks, current_track,
                 split_env, audio, track_i, cue_progress, cue_finished, exported,
                 slices, track_result>>

\* an exception of parse_cue reaches the outer handler
SplitParseRaised ==
  /\ split_pc = "parse"
  /\ cue_pc = "raised"
  /\ TopLevelRaise("parse_cue")
  /\ UNCHANGED <<bvars, pvars, nvars, wvars, cvars, split_env, audio, track_i,
                 cue_progress, cue_finished, exported, slices, track_result>>

\* lines 156-157: the audio file is decoded, the loop begins
SplitLoad ==
  /\ split_pc = "parse"
  /\ cue_pc = "returned"
  /\ IF split_env = "audio_garbage"
     THEN /\ TopLevelRaise("from_file")
          /\ UNCHANGED <<audio, slices, track_result>>
     ELSE /\ audio' \in AudioLens
          /\ slices' = [j \in 1..Len(tracks) |-> NoSlice]
          /\ track_result' = [j \in 1..Len(tracks) |-> "pending"]
          /\ split_pc' = IF tracks = <<>> THEN "finish" ELSE "loop"
          /\ UNCHANGED <<cue_failed_files, cue_log>>
  /\ UNCHANGED <<bvars, pvars, nvars, wvars, cvars, split_env, track_i, cue_progress,
                 cue_finished, exported>>

\* track_audio.export(output_path, format='flac') ends well: the file holds
\* the slice
Written(out, name, slice) ==
  (name :> [from |-> slice.from, to |-> slice.to, complete |-> TRUE]) @@ out

\* the encoder fails after export has opened the file for writing
Opened(out, name) == (name :> [from |-> 0, to |-> 0, complete |-> FALSE]) @@ out

\* one pass of the loop body (lines 160-179)
SplitTrack ==
  /\ split_pc = "loop"
  /\ LET track == tracks[track_i + 1]
         stop  == end_time(tracks, track_i + 1, audio)
     IN  IF "start" \notin DOMAIN track \/ stop.raised
         THEN /\ TrackRaise("KeyError: 'start'")
              /\ UNCHANGED <<slices, exported>>
         ELSE /\ slices' = [slices EXCEPT ![track_i + 1] = Slice(audio, track.start, stop.ms)]
              /\ IF "number" \notin DOMAIN track
                 THEN /\ TrackRaise("KeyError: 'number'")
                      /\ UNCHANGED exported
                 ELSE LET name == FileName(track.number, "title" \in DOMAIN track,
                                           IF "title" \in DOMAIN track
                                           THEN TitleChars(track.title) ELSE <<>>)
                      IN  \E how \in {"done", "open_raised", "encode_raised"} :
                             IF how = "done"
                             THEN /\ exported' = Written(exported, name, slices'[track_i + 1])
                                  /\ track_result' =
                                        [track_result EXCEPT ![track_i + 1] = "exported"]
                                  /\ split_pc' = "emit"
                                  /\ UNCHANGED <<cue_failed_files, cue_log>>
                             ELSE /\ TrackRaise("export")
                                  /\ exported' = IF how = "open_raised" THEN exported
                                                 ELSE Opened(exported, name)
  /\ UNCHANGED <<bvars, pvars, nvars, wvars, cvars, split_env, audio, track_i,
                 cue_progress, cue_finished>>

\* self.progress.emit(int((i + 1) / total_tracks * 100)) (line 181)
SplitEmitProgress ==
  /\ split_pc = "emit"
  /\ cue_progress' = Append(cue_progress, ProgressValue(track_i + 1, Len(tracks)))
  /\ track_i' = track_i + 1
  /\ split_pc' = IF track_i + 1 < Len(tracks) THEN "loop" ELSE "finish"
  /\ UNCHANGED <<bvars, pvars, nvars, wvars, cvars, split_env, audio, cue_failed_files,
                 cue_log, cue_finished, exported, slices, track_result>>

\* self.finished.emit(self.failed_files) (line 189)
SplitFinished ==
  /\ split_pc = "finish"
  /\ cue_finished' = Append(cue_finished, cue_failed_files)
  /\ split_pc' = "done"
  /\ UNCHANGED <<bvars, pvars, nvars, wvars, cvars, split_env, audio, track_i,
                 cue_failed_files, cue_log, cue_progress, exported, slices,
                 track_result>>

InitSplit == BatchUnused /\ ProgressUnused /\ SplitInit /\ NamesUnused /\ WindowUnused

NextSplit ==
  \/ SplitStart
  \/ ParseLine
  \/ ParseReturn
  \/ SplitParseRaised
  \/ SplitLoad
  \/ SplitTrack
  \/ SplitEmitProgress
  \/ SplitFinished

SpecSplit == InitSplit /\ [][NextSplit]_vars

\* ------------------------------------------- a run of either thread
\* the window has started a batch conversion or a cue split
InitRuns == Init \/ InitSplit

NextRuns ==
  \/ split_pc = "idle" /\ Next
  \/ split_pc # "idle" /\ NextSplit

SpecRuns == InitRuns /\ [][NextRuns]_vars

\* ------------------------------------------------ the window's threads
\* A thread started by the window is [kind, at, left]: which run() it
\* executes, where it is in it, and how many files or tracks it has still
\* to process.  convert_files and split_with_cue build a thread, assign it
\* to self.thread and start it; neither looks at the thread that
\* self.thread held before, and no button is disabled while a thread runs.
Running(w) == workers[w].at \notin {"finished", "killed"}

\* the thread object that self.thread loses is still running: either the
\* running thread keeps it alive and runs on, or Qt destroys a running
\* QThread and the process dies
Requested(kind) ==
  /\ \A w \in 1..Len(workers) : workers[w].at # "killed"
  /\ clicks' = clicks + 1
  /\ \/ \E n \in 0..MaxUnits :
           workers' = Append(workers, [kind |-> kind, at |-> "started", left |-> n])
     \/ /\ \E w \in 1..Len(workers) : Running(w)
        /\ workers' = [w \in 1..Len(workers) |-> [workers[w] EXCEPT !.at = "killed"]]
  /\ UNCHANGED <<bvars, pvars, cvars, svars, nvars>>

\* convert_files (withhorizon lines 289-309, audioconv.py lines 114-131)
ConvertRequest == clicks < MaxClicks /\ Requested("convert")

\* split_with_cue (lines 273-287)
SplitRequest == clicks < MaxClicks /\ Requested("split")

\* where a thread goes next.  A conversion decodes and encodes each file
\* (or skips it), logs a failure, emits the file's progress; a split decodes
\* the audio file once, then encodes, logs and emits per track; both end by
\* emitting finished.
Steps(t) ==
  LET To(at) == [t EXCEPT !.at = at]
      Loop   == IF t.left = 0 THEN {To("finish")}
                ELSE IF t.kind = "convert" THEN {To("decode"), To("emit")}
                ELSE {To("encode"), To("log")}
  IN  CASE t.at = "started" -> IF t.kind = "convert" THEN Loop
                               ELSE {To("decode"), [To("log") EXCEPT !.left = 0]}
        [] t.at = "decode"  -> IF t.kind = "convert" THEN {To("encode"), To("log")}
                               ELSE Loop \cup {[To("log") EXCEPT !.left = 0]}
        [] t.at = "encode"  -> {To("emit"), To("log")}
        [] t.at = "log"     -> IF t.left = 0 THEN {To("finish")} ELSE {To("emit")}
        [] t.at = "emit"    -> LET u == [t EXCEPT !.left = t.left - 1]
                               IN  IF u.left = 0 THEN {[u EXCEPT !.at = "finish"]}
                                   ELSE IF u.kind = "convert"
                                        THEN {[u EXCEPT !.at = "decode"],
                                              [u EXCEPT !.at = "emit"]}
                                        ELSE {[u EXCEPT !.at = "encode"],
                                              [u EXCEPT !.at = "log"]}
        [] t.at = "finish"  -> {To("finished")}
        [] OTHER            -> {}

\* one step of one thread's run()
WorkerStep ==
  /\ \E w \in 1..Len(workers) :
        \E t \in Steps(workers[w]) : workers' = [workers EXCEPT ![w] = t]
  /\ UNCHANGED <<bvars, pvars, cvars, svars, nvars, clicks>>

WindowInit == workers = <<>> /\ clicks = 0

InitWindow ==
  BatchUnused /\ ProgressUnused /\ CueUnused /\ SplitUnused /\ NamesUnused /\ WindowInit

NextWindow == ConvertRequest \/ SplitRequest \/ WorkerStep

SpecWindow == InitWindow /\ [][NextWindow]_vars

\* ================================================================ claims
Outcomes == {"Succeeded", "Skipped", "Failed"}

RaiseEvents ==
  {"join_raised", "makedirs_raised", "decode_raised", "open_raised", "encode_raised"}

\* the worker thread has left run(), by returning or by an exception
Terminal == pc \in {"done", "aborted"}

Range(s) == {s[n] : n \in 1..Len(s)}

Happened(e, j) == \E n \in 1..Len(trace) : trace[n].ev = e /\ trace[n].idx = j

Raised(j) == \E e \in RaiseEvents : Happened(e, j)

\* event e1 of file j stands before its event e2 in the trace
Before2(e1, e2, j) ==
  \E n1, n2 \in 1..Len(trace) :
     /\ n1 < n2
     /\ trace[n1].ev = e1 /\ trace[n1].idx = j
     /\ trace[n2].ev = e2 /\ trace[n2].idx = j

\* C1: in a batch run a file that fails to decode or encode is recorded as
\* Failed and the run goes on: once the thread has left run(), every file
\* after a failing one has been processed.
C1_FailureNeverAborts ==
  \A j \in 1..Len(outcome) :
     Raised(j) =>
        /\ outcome[j] = <<"Failed">>
        /\ Terminal => \A n \in (j + 1)..Len(outcome) : outcome[n] # <<>>

\* C1 in audioconv-withhorizon.py alone, where it holds
C1_InWithHorizon == variant = "withhorizon" => C1_FailureNeverAborts

\* C2: at the end of a batch run of audioconv-withhorizon.py the number of
\* completed files equals the number of discovered files and every file has
\* exactly one outcome, one of Succeeded, Skipped, Failed.
C2_OneOutcomePerFile ==
  (variant = "withhorizon" /\ Terminal) =>
     /\ i = total_files
     /\ Len(outcome) = total_files
     /\ Cardinality({j \in 1..Len(outcome) : outcome[j] # <<>>}) = total_files
     /\ \A j \in 1..Len(outcome) : Len(outcome[j]) = 1 /\ outcome[j][1] \in Outcomes

C2_Witness ==
  /\ variant = "withhorizon"
  /\ pc = "done"
  /\ total_files = 2
  /\ \E j, n \in 1..2 : outcome[j] = <<"Failed">> /\ outcome[n] = <<"Succeeded">>

\* C3: the k-th progress value of a run over total_files files is
\* floor(k * 100 / total_files); the values stay within 0..100, never
\* decrease, one is emitted per completed file and the last one is 100.
C3_ProgressIsFloor ==
  /\ Len(pvalues) = pdone
  /\ \A k \in 1..Len(pvalues) :
        /\ pvalues[k] = (k * 100) \div ptotal
        /\ pvalues[k] \in 0..100
        /\ k > 1 => pvalues[k - 1] <= pvalues[k]
  /\ pdone = ptotal => pvalues[ptotal] = 100

\* what does hold of the values of line 85: within 0..100, never decreasing,
\* at most one below the floor, the last one 100
C3_ProgressShape ==
  /\ Len(pvalues) = pdone
  /\ \A k \in 1..Len(pvalues) :
        /\ pvalues[k] \in 0..100
        /\ pvalues[k] \in {(k * 100) \div ptotal, (k * 100) \div ptotal - 1}
        /\ k > 1 => pvalues[k - 1] <= pvalues[k]
  /\ pdone = ptotal => pvalues[ptotal] = 100

\* in audioconv-withhorizon.py one value is emitted per file, after the file
\* has its outcome
C3_OneValuePerCompletedFile ==
  variant = "withhorizon" =>
     /\ Len(progress) = i
     /\ \A k \in 1..Len(progress) : Len(outcome[k]) = 1
     /\ Terminal => Len(progress) = total_files

\* C4: every started run emits the completion event exactly once, with the
\* failure list of the run, and emits no progress value after it: when the
\* thread has left run(), finished was emitted once and is the last event.
C4_CompletionEmittedOnce ==
  Terminal =>
     /\ Len(finished) = 1
     /\ finished[1] = failed_files
     /\ trace[Len(trace)].ev = "finished"

\* C4 in audioconv-withhorizon.py alone, where it holds
C4_InWithHorizon == variant = "withhorizon" => C4_CompletionEmittedOnce

\* C5: when the resolved output path of a file exists already and overwrite
\* is off, the file is Skipped: it is neither decoded nor encoded, the
\* existing output keeps its content and the file is not in the failure list.
C5_ExistingOutputSkipped ==
  ~overwrite =>
     \A j \in 1..Len(resolved) :
        resolved[j].before \notin {"<unresolved>", "<absent>"} =>
           /\ outcome[j] = <<"Skipped">>
           /\ \A e \in {"decoded", "decode_raised", "truncated", "encoded",
                        "open_raised", "encode_raised"} : ~Happened(e, j)
           /\ fs[resolved[j].out] = resolved[j].before
           /\ files[j] \notin Range(failed_files)

\* C5 in audioconv-withhorizon.py alone, where it holds
C5_InWithHorizon == variant = "withhorizon" => C5_ExistingOutputSkipped

C5_Witness ==
  /\ variant = "withhorizon"
  /\ ~overwrite
  /\ run = 1
  /\ \E j \in 1..Len(resolved) : resolved[j].before = "old" /\ outcome[j] = <<"Skipped">>

\* C6: a second run of audioconv-withhorizon.py with overwrite off and the
\* same inputs leaves the files on disk as the first run left them, and
\* every file that Succeeded in the first run is Skipped in the second,
\* neither decoded nor encoded again.
C6_SecondRunIdempotent ==
  (variant = "withhorizon" /\ ~overwrite /\ run >= 2 /\ pc = "done") =>
     /\ ~envChanged => fs = prevFs
     /\ Len(prevOutcome) = Len(outcome)
     /\ \A j \in 1..Len(prevOutcome) :
           prevOutcome[j] = <<"Succeeded">> =>
              /\ outcome[j] = <<"Skipped">>
              /\ \A e \in {"decoded", "decode_raised", "truncated", "encoded"} :
                    ~Happened(e, j)

C6_Witness ==
  /\ variant = "withhorizon" /\ ~overwrite /\ run = 2 /\ pc = "done" /\ ~envChanged
  /\ \E j, n \in 1..Len(prevOutcome) :
        /\ prevOutcome[j] = <<"Succeeded">> /\ outcome[j] = <<"Skipped">>
        /\ prevOutcome[n] = <<"Failed">>

\* C7: in a second run with overwrite off, every file that Failed in the
\* first run is attempted again instead of being skipped.
C7_FailedFilesRetried ==
  (variant = "withhorizon" /\ ~overwrite /\ run >= 2 /\ pc = "done") =>
     \A j \in 1..Len(prevOutcome) :
        prevOutcome[j] = <<"Failed">> => outcome[j] # <<"Skipped">>

\* C8: in overwrite mode the output path is the input path, the file is not
\* truncated or written before its decode has succeeded, and a file whose
\* decode or encode fails holds its original content at the end of the run.
C8_OverwriteKeepsOriginal ==
  overwrite =>
     \A j \in 1..Len(resolved) :
        /\ resolved[j] # Unresolved => resolved[j].out = files[j]
        /\ Happened("truncated", j) => Before2("decoded", "truncated", j)
        /\ (Terminal /\ Raised(j)) => fs[files[j]] = prevFs[files[j]]

\* the first two parts of C8, which hold in both programs
C8_DecodeBeforeTruncation ==
  overwrite =>
     \A j \in 1..Len(resolved) :
        /\ resolved[j] # Unresolved => resolved[j].out = files[j]
        /\ Happened("truncated", j) => Before2("decoded", "truncated", j)

\* C9: in CopyToFolder mode the output path is the destination root joined
\* with the input's path relative to the source root, the extension replaced
\* by wav under the special profile and by mp3 otherwise, and the output's
\* parent directory exists before the encode is attempted.
RelativeDir(p) == SubSeq(p.dir, Len(Src) + 1, Len(p.dir))

TargetExt == IF gamma_horizon THEN "wav" ELSE "mp3"

ExtensionReplaced(name) == Append(SubSeq(name, 1, Len(name) - 1), TargetExt)

OnlyDotsBeforeExtension(name) == \A n \in 1..(Len(name) - 1) : name[n] = ""

ParentExistsBeforeEncode ==
  pc \in {"open", "encode"} => dirname(output_path) \in dirs

C9_OutputPathReplacesExtension ==
  (~overwrite /\ destination_folder = Dst) =>
     /\ \A j \in 1..Len(resolved) :
           resolved[j] # Unresolved =>
              resolved[j].out =
                 Path(Dst \o RelativeDir(files[j]), ExtensionReplaced(files[j].name))
     /\ ParentExistsBeforeEncode

\* C9 as amended: a name that is an extension and nothing else (".flac") keeps
\* its name and gets the new extension appended (".flac.mp3").
C9_OutputPathAmended ==
  (~overwrite /\ destination_folder = Dst) =>
     /\ \A j \in 1..Len(resolved) :
           resolved[j] # Unresolved =>
              resolved[j].out =
                 Path(Dst \o RelativeDir(files[j]),
                      IF OnlyDotsBeforeExtension(files[j].name)
                      THEN Append(files[j].name, TargetExt)
                      ELSE ExtensionReplaced(files[j].name))
     /\ ParentExistsBeforeEncode

C9_Witness ==
  /\ ~overwrite /\ destination_folder = Dst /\ gamma_horizon
  /\ pc = "encode"
  /\ file_path.dir = Src \o <<"sub">>
  /\ output_path = Path(Dst \o <<"sub">>, <<"a", "wav">>)
  /\ (Dst \o <<"sub">>) \in dirs
  /\ \E j \in 1..Len(resolved) :
        resolved[j].out = Path(Dst, <<"", "flac", "wav">>)

\* C10: when every TRACK line is well-formed, parse_cue returns one track
\* record per TRACK line, in input order, each carrying the number of its
\* TRACK line.
TrackLines == SelectSeq(cue_lines, LAMBDA l : l.kw = "TRACK")

C10_OneRecordPerTrackLine ==
  (cue_pc = "returned" /\ \A n \in 1..Len(TrackLines) : IsInt(TrackLines[n].arg)) =>
     /\ Len(tracks) = Len(TrackLines)
     /\ \A n \in 1..Len(tracks) :
           /\ "number" \in DOMAIN tracks[n]
           /\ tracks[n].number = IntOf[TrackLines[n].arg]

\* C10 for cue sheets in which no INDEX 01 line stands before the first
\* TRACK line, where it holds
IndexBeforeFirstTrack ==
  \E n \in 1..Len(cue_lines) :
     /\ cue_lines[n].kw = "INDEX 01"
     /\ \A k \in 1..(n - 1) : cue_lines[k].kw # "TRACK"

C10_WithoutLeadingIndex == ~IndexBeforeFirstTrack => C10_OneRecordPerTrackLine

\* ---------------------------------------------------------------- C15
\* the line parse_cue has just consumed, when the step was one pass of its loop
Consumed == cue_lines[cue_pos']

ParsedOneLine == cue_pc = "parsing" /\ cue_pos' = cue_pos + 1

\* ms is whole seconds in milliseconds plus the largest whole number of
\* milliseconds that does not exceed frames 75ths of a second
IsOffsetOf(ms, minutes, seconds, frames) ==
  LET f == ms - (minutes * 60 + seconds) * 1000
  IN  f >= 0 /\ 75 * f <= frames * 1000 /\ frames * 1000 < 75 * (f + 1)

\* C15: every INDEX 01 line whose MM:SS:FF fields are non-negative integers
\* stores (MM*60+SS)*1000 + floor(FF*1000/75) as the start offset of the
\* current track and leaves its other fields alone; an INDEX line other than
\* INDEX 01 leaves the current track, start offset included, unchanged.
C15_IndexStoresStart ==
  [][ParsedOneLine =>
       /\ (Consumed.kw = "INDEX 01" /\ \A n \in 1..3 : IsInt(Consumed.time[n])) =>
            /\ cue_pc' = "parsing"
            /\ DOMAIN current_track' = DOMAIN current_track \cup {"start"}
            /\ IsOffsetOf(current_track'.start, IntOf[Consumed.time[1]],
                          IntOf[Consumed.time[2]], IntOf[Consumed.time[3]])
            /\ \A k \in DOMAIN current_track \ {"start"} :
                    current_track'[k] = current_track[k]
       /\ Consumed.kw = "INDEX 00" =>
            current_track' = current_track /\ tracks' = tracks]_vars

\* 03:02:37 has been stored as 182493 over an earlier start offset, and an
\* INDEX 00 line after it has been consumed
C15_Witness ==
  /\ cue_pos = 4
  /\ cue_lines[1].kw = "TRACK"
  /\ cue_lines[2].time = <<"00", "02", "00">>
  /\ cue_lines[3].time = <<"03", "02", "37">>
  /\ cue_lines[4].kw = "INDEX 00"
  /\ "start" \in DOMAIN current_track
  /\ current_track.start = 182493

\* ---------------------------------------------------------------- C20
\* two files of one directory whose names differ in the extension only
DifferOnlyInExtension(p, q) ==
  /\ p # q
  /\ p.dir = q.dir
  /\ Len(p.name) >= 2 /\ Len(q.name) = Len(p.name)
  /\ \A n \in 1..(Len(p.name) - 1) : p.name[n] = q.name[n]
  /\ p.name[1] # ""

RECURSIVE DecimalValue(_)
DecimalValue(d) ==
  IF d = <<>> THEN 0
  ELSE 10 * DecimalValue(SubSeq(d, 1, Len(d) - 1))
       + (CHOOSE k \in 0..9 : DigitChar[k + 1] = d[Len(d)])

\* d is number written in decimal, with zeros in front up to two digits
IsPaddedNumber(d, number) ==
  /\ Len(d) >= 2
  /\ \A n \in 1..Len(d) : \E k \in 1..10 : DigitChar[k] = d[n]
  /\ DecimalValue(d) = number
  /\ Len(d) > 2 => d[1] # "0"

\* the characters of t that are alphanumeric, space, hyphen or underscore, in
\* their order, from the first to the last of them that is no space
SanitizedTitle(t) ==
  LET Kept(c) == isalnum(c) \/ c = " " \/ c = "-" \/ c = "_"
      kept    == SelectSeq(t, Kept)
      solid   == {n \in 1..Len(kept) : kept[n] # " "}
  IN  IF solid = {} THEN <<>>
      ELSE SubSeq(kept, CHOOSE n \in solid : \A m \in solid : n <= m,
                        CHOOSE n \in solid : \A m \in solid : m <= n)

\* C16: the exported file's name is the track number zero-padded to two
\* digits, " - ", the title (or the default "Track NN" when the record has
\* none) with every character that is not alphanumeric, space, hyphen or
\* underscore removed and the surrounding whitespace trimmed, then ".flac".
C16_FileNameShape ==
  filename # <<>> =>
     \E a \in 2..Len(filename) :
        LET num == SubSeq(filename, 1, a)
            t   == IF "title" \in DOMAIN name_track THEN name_track.title
                   ELSE <<"T", "r", "a", "c", "k", " ">> \o num
        IN  /\ IsPaddedNumber(num, name_track.number)
            /\ filename = num \o <<" ", "-", " ">> \o SanitizedTitle(t)
                              \o <<".", "f", "l", "a", "c">>

\* track 3 titled "My: Song? #1" has been named "03 - My Song 1.flac"
C16_Witness ==
  /\ name_track = [number |-> 3, title |-> MySong]
  /\ filename = <<"0", "3", " ", "-", " ", "M", "y", " ", "S", "o", "n", "g", " ", "1",
                  ".", "f", "l", "a", "c">>

\* ------------------------------------------------------ the cue split
HasMalformedTrack ==
  \E n \in 1..Len(cue_lines) : cue_lines[n].kw = "TRACK" /\ ~IsInt(cue_lines[n].arg)

NoTrackExported ==
  /\ DOMAIN exported = {}
  /\ \A j \in 1..Len(track_result) : track_result[j] # "exported"

OneGeneralError ==
  /\ Len(cue_failed_files) = 1
  /\ cue_failed_files[1].kind = "General error"

\* C11: a TRACK line whose track id is non-numeric or missing makes the
\* whole parse fail: no track is split and the run ends with exactly one
\* entry in the failure list, the general-error entry.
C11_MalformedTrackFailsParse ==
  HasMalformedTrack =>
     /\ NoTrackExported
     /\ cue_pc # "returned"
     /\ cue_progress = <<>>
     /\ split_pc \in {"finish", "done"} => OneGeneralError
     /\ (split_pc \in {"finish", "done"} /\ split_env \in {"ok", "audio_garbage"}) =>
           cue_pc = "raised" /\ cue_failed_files[1].msg = "parse_cue"
     /\ split_pc = "done" => cue_finished = <<cue_failed_files>>

\* a sheet with a complete track before the malformed TRACK line and a
\* TRACK line after it, everything else in place
C11_Witness ==
  /\ split_pc = "done"
  /\ split_env = "ok"
  /\ Len(cue_lines) = 4
  /\ cue_lines[1] = CueLine("TRACK", "01", NoTime)
  /\ cue_lines[2].kw = "INDEX 01"
  /\ cue_lines[3] = CueLine("TRACK", "xx", NoTime)
  /\ cue_lines[4] = CueLine("TRACK", "02", NoTime)
  /\ cue_failed_files = <<GeneralEntry("parse_cue")>>

\* ---------------------------------------------------------------- C14
\* the run fails outside the loop over the tracks
TopLevelFailure == split_env # "ok" \/ cue_pc = "raised"

\* C14: a failure at the top level of a split, the cue file or the audio
\* file missing or the output folder impossible to create among them, aborts
\* the split: no track is exported and the failure list ends up with exactly
\* one entry, the general-error entry.
C14_TopLevelFailureAborts ==
  TopLevelFailure =>
     /\ NoTrackExported
     /\ cue_progress = <<>>
     /\ split_pc \in {"finish", "done"} => OneGeneralError /\ cue_log = cue_failed_files
     /\ split_pc = "done" => cue_finished = <<cue_failed_files>>

\* the output folder cannot be created, for a sheet of two complete tracks
C14_Witness ==
  /\ split_pc = "done"
  /\ split_env = "folder_blocked"
  /\ Len(cue_lines) = 4
  /\ cue_lines[1] = CueLine("TRACK", "01", NoTime)
  /\ cue_lines[2].kw = "INDEX 01"
  /\ cue_lines[3] = CueLine("TRACK", "02", NoTime)
  /\ cue_lines[4].kw = "INDEX 01"
  /\ cue_finished = <<(<<GeneralEntry("folder_blocked")>>)>>

\* ---------------------------------------------------------------- C13
\* the loop over the tracks has been entered
InLoop == split_env = "ok" /\ cue_pc = "returned" /\ track_result # <<>>

Failed(j) == track_result[j] = "failed"

\* the indices of the tracks that failed, in processing order
FailedTracks == SelectSeq([j \in 1..Len(track_result) |-> j], Failed)

\* entry e names track record t: its number, or "unknown" when it has none
Names(e, t) ==
  IF "number" \in DOMAIN t THEN e.kind = "Track" /\ e.number = t.number
  ELSE e.kind = "Track unknown"

\* C13: a failure while a track is processed is caught: it adds exactly one
\* record to the failure list, naming the track's number or "unknown", the
\* tracks after it are still processed, and the progress value of the
\* failing track is still emitted.
C13_TrackFailureContained ==
  InLoop =>
     /\ Len(cue_failed_files) = Len(FailedTracks)
     /\ \A k \in 1..Len(FailedTracks) :
           Names(cue_failed_files[k], tracks[FailedTracks[k]])
     /\ \A j \in 1..Len(tracks) :
           track_result[j] # "pending" <=>
              (j <= track_i \/ (j = track_i + 1 /\ split_pc = "emit"))
     /\ Len(cue_progress) = track_i
     /\ split_pc \in {"finish", "done"} => track_i = Len(tracks)

\* the first of two tracks has failed, the second has been exported, and
\* both progress values have been emitted
C13_Witness ==
  /\ InLoop
  /\ split_pc = "done"
  /\ track_result = <<"failed", "exported">>
  /\ cue_failed_files = <<[kind |-> "Track", number |-> 1, msg |-> "export"]>>
  /\ cue_progress = <<50, 100>>

\* ---------------------------------------------------------------- C19
NoStart(j) == "start" \notin DOMAIN tracks[j]

\* the failure-list entry of a track that failed
EntryOf(j) == cue_failed_files[Cardinality({m \in 1..j : Failed(m)})]

\* C19: a track record without a start offset fails as a failure of that
\* track, and it makes the track just before it fail too, whose end is read
\* from the missing start; every other track is unaffected: its slice is
\* taken, and it is exported unless something else raises for it.
C19_MissingStartFailsTwo ==
  InLoop =>
     \A j \in 1..Len(tracks) :
        /\ (NoStart(j) /\ track_result[j] # "pending") =>
              Failed(j) /\ EntryOf(j).msg = "KeyError: 'start'"
        /\ (j > 1 /\ NoStart(j) /\ track_result[j - 1] # "pending") =>
              Failed(j - 1) /\ EntryOf(j - 1).msg = "KeyError: 'start'"
        /\ (~NoStart(j) /\ (j < Len(tracks) => ~NoStart(j + 1))
               /\ track_result[j] # "pending") =>
              /\ slices[j] # NoSlice
              /\ Failed(j) => EntryOf(j).msg # "KeyError: 'start'"

\* three records, the second without a start: the first and the second have
\* failed on the missing start, the third has been exported
C19_Witness ==
  /\ InLoop
  /\ split_pc = "done"
  /\ Len(tracks) = 3
  /\ ~NoStart(1) /\ NoStart(2) /\ ~NoStart(3)
  /\ track_result = <<"failed", "failed", "exported">>
  /\ \A k \in 1..2 : cue_failed_files[k].msg = "KeyError: 'start'"

\* ---------------------------------------------------------------- C12
\* every record has a start, the starts do not decrease and lie in the buffer
StartsInOrder ==
  /\ \A j \in 1..Len(tracks) : ~NoStart(j) /\ tracks[j].start <= audio
  /\ \A j \in 1..(Len(tracks) - 1) : tracks[j].start <= tracks[j + 1].start

\* what decides the file name of record j
NameFields(j) ==
  <<IF "number" \in DOMAIN tracks[j] THEN tracks[j].number ELSE 0 - 1,
    IF "title" \in DOMAIN tracks[j] THEN tracks[j].title ELSE NoToken>>

\* C12: for tracks with non-decreasing starts inside the buffer, the slice
\* of track i runs from its start to the start of track i+1, that of the
\* last track to the end of the buffer; the slices are contiguous, do not
\* overlap and cover the buffer from the first start to its end; and the
\* file a track was exported to holds its slice.
C12_SlicesPartitionBuffer ==
  (InLoop /\ StartsInOrder) =>
     /\ \A j \in 1..Len(tracks) :
           track_result[j] # "pending" =>
              /\ slices[j].from = tracks[j].start
              /\ slices[j].to = IF j < Len(tracks) THEN tracks[j + 1].start ELSE audio
              /\ slices[j].from <= slices[j].to
              /\ (j > 1) => slices[j - 1].to = slices[j].from
              /\ (track_result[j] = "exported"
                     /\ \A m \in (j + 1)..Len(tracks) :
                           track_result[m] = "pending" \/ NameFields(m) # NameFields(j)) =>
                    \E name \in DOMAIN exported :
                       exported[name] = [from |-> slices[j].from, to |-> slices[j].to,
                                         complete |-> TRUE]
     /\ split_pc = "done" =>
           slices[1].from = tracks[1].start /\ slices[Len(tracks)].to = audio

\* two tracks starting at 2000 and 182493 in a buffer of 200000 ms, both
\* exported: two files, of 180493 and 17507 ms
C12_Witness ==
  /\ InLoop
  /\ split_pc = "done"
  /\ audio = 200000
  /\ track_result = <<"exported", "exported">>
  /\ slices = <<[from |-> 2000, to |-> 182493], [from |-> 182493, to |-> 200000]>>
  /\ Cardinality(DOMAIN exported) = 2
  /\ \E name \in DOMAIN exported : exported[name].to - exported[name].from = 180493

\* ---------------------------------------------------------------- C17
\* the last n records of sequence t
LastN(t, n) == SubSeq(t, Len(t) - n + 1, Len(t))

\* t goes on from u: nothing of u is lost or changed
Extends(t, u) == Len(t) >= Len(u) /\ SubSeq(t, 1, Len(u)) = u

\* C17: in a run the diagnostic log gains exactly one record per entry of
\* the failure list, in the order of the list; the list follows processing
\* order and records no failure twice; the log is only appended to.
C17_LogMirrorsFailureList ==
  /\ [](/\ Len(log) >= Len(failed_files)
        /\ LastN(log, Len(failed_files)) = failed_files
        /\ \A a, b \in 1..Len(failed_files) :
              a < b => \E ja, jb \in 1..Len(files) :
                          /\ ja < jb
                          /\ files[ja] = failed_files[a] /\ files[jb] = failed_files[b]
        /\ \A j \in 1..Len(outcome) :
              outcome[j] = <<"Failed">> <=> files[j] \in Range(failed_files)
        /\ cue_log = cue_failed_files
        /\ InLoop => Len(cue_failed_files) = Len(FailedTracks)
        /\ TopLevelFailure => Len(cue_failed_files) <= 1)
  /\ [][Extends(log', log) /\ Extends(cue_log', cue_log)]_vars

\* a second batch run has added its two failures to the log after the two
\* records of the first run
C17_Witness ==
  /\ run = 2 /\ pc = "done"
  /\ Len(failed_files) = 2
  /\ Len(log) = 4
  /\ failed_files[1] # failed_files[2]

\* the cue split has logged a failure of each of two tracks
C17_SplitLogged ==
  /\ split_pc = "done"
  /\ Len(cue_log) = 2
  /\ cue_log[1].kind = "Track" /\ cue_log[2].kind = "Track"

\* ---------------------------------------------------------------- C18
\* C18: whatever Convert and Split requests the window makes, at most one
\* worker runs: no two threads decode or encode at the same time, no two
\* append to the diagnostic log at the same time, no two emit progress at
\* the same time.
C18_OneWorkerAtATime ==
  \A a, b \in 1..Len(workers) :
     a # b =>
        /\ ~(Running(a) /\ Running(b))
        /\ ~(workers[a].at \in {"decode", "encode"} /\ workers[b].at \in {"decode", "encode"})
        /\ ~(workers[a].at = "log" /\ workers[b].at = "log")
        /\ ~(workers[a].at = "emit" /\ workers[b].at = "emit")

\* ---------------------------------------------------------------- C21
\* the walk of this run is over and has found no file of a selected type
WalkedNothing == pc \notin {"idle", "walk"} /\ total_files = 0

\* C21: a batch run that discovers no matching file ends normally: it never
\* reaches the progress emit, where the file count is the divisor, emits no
\* progress value and raises nothing; the completion event is its next and
\* last step, emitted once with an empty failure list.
C21_EmptyRunCompletes ==
  WalkedNothing =>
     /\ pc \in {"finish", "done"}
     /\ progress = <<>>
     /\ \A n \in 1..Len(trace) : trace[n].ev = "finished"
     /\ failed_files = <<>> /\ outcome = <<>>
     /\ pc = "finish" => finished = <<>> /\ ENABLED EmitFinished
     /\ pc = "done" => finished = <<(<<>>)>> /\ Len(trace) = 1

\* audioconv.py with only .flac selected and a tree whose one audio file is
\* a.m4a: the run is over
C21_Witness ==
  /\ variant = "audioconv"
  /\ run = 1 /\ pc = "done"
  /\ file_types = {"flac"}
  /\ Path(Src, <<"a", "m4a">>) \in DOMAIN fs
  /\ files = <<>>
  /\ finished = <<(<<>>)>>

\* audioconv-withhorizon.py with no type selected
C21_WitnessWithHorizon ==
  /\ variant = "withhorizon"
  /\ run = 1 /\ pc = "done"
  /\ file_types = {}
  /\ files = <<>>
  /\ finished = <<(<<>>)>>

====
